---- MODULE Spec2Model ----
(***************************************************************************)
(* Model of dealmaker.py: simulate_contract, the 12-month OLED supply,     *)
(* production and P&L simulation, and the two calls the script makes of it *)
(* (Scenario A, then Scenario B).                                          *)
(*                                                                         *)
(* Python floats are modelled as exact rationals [n, d] in lowest terms;   *)
(* int() is truncation toward zero and round() is round-half-even.         *)
(***************************************************************************)
EXTENDS Integers, Sequences, FiniteSets

(***************************************************************************)
(* Bounds of the model and constants of the program.                       *)
(***************************************************************************)
\* largest unit quantity (deliveries, production, demand, inventories) drawn
MaxUnits == 2

\* for month in range(1, 13)
NumMonths == 12

\* ecolowrap_subsidy = 200_000 if ecolowrap else 0
SubsidyAmount == 200000

(***************************************************************************)
(* Exact rational arithmetic standing for Python float arithmetic.         *)
(***************************************************************************)
Abs(x) == IF x < 0 THEN -x ELSE x

RECURSIVE GCD(_, _)
GCD(a, b) == IF b = 0 THEN a ELSE GCD(b, a % b)

\* the rational n/d (d # 0) in lowest terms with a positive denominator
Rat(n, d) ==
  LET g == GCD(Abs(n), Abs(d))
      s == IF d < 0 THEN -1 ELSE 1
  IN  [n |-> (s * n) \div g, d |-> (s * d) \div g]

RInt(k) == [n |-> k, d |-> 1]
Zero == RInt(0)
RAdd(a, b) == Rat(a.n * b.d + b.n * a.d, a.d * b.d)
RSub(a, b) == Rat(a.n * b.d - b.n * a.d, a.d * b.d)
RMul(a, b) == Rat(a.n * b.n, a.d * b.d)
\* a / k for an integer k > 0 (sum(...) / len(...))
RDivInt(a, k) == Rat(a.n, a.d * k)

\* Python int(x) on a float: truncation toward zero
Trunc(r) == IF r.n >= 0 THEN r.n \div r.d ELSE -((-r.n) \div r.d)

\* mathematical floor, for comparison with int()
Floor(r) == r.n \div r.d

RECURSIVE Pow10(_)
Pow10(k) == IF k = 0 THEN 1 ELSE 10 * Pow10(k - 1)

\* Python round(x, ndigits): nearest multiple of 10^-ndigits, ties to even
Round(r, ndigits) ==
  LET p    == Pow10(ndigits)
      s    == RMul(r, RInt(p))
      f    == Floor(s)
      twice == RSub(RMul(s, RInt(2)), RInt(2 * f))   \* 2 * fractional part
      q    == IF twice.n < twice.d THEN f
              ELSE IF twice.n > twice.d THEN f + 1
              ELSE IF f % 2 = 0 THEN f ELSE f + 1
  IN  Rat(q, p)

RECURSIVE SumSeq(_)
SumSeq(s) == IF s = <<>> THEN 0 ELSE s[1] + SumSeq(Tail(s))

(***************************************************************************)
(* The statements of simulate_contract, one operator per assignment.       *)
(***************************************************************************)
\* final_price_component = list_price * (1 - discount / 100.0)
FinalPriceComponent(inp) ==
  RMul(RInt(inp.list_price), RSub(RInt(1), Rat(inp.discount, 100)))

\* doa_units = int(received_from_cda * doa_rate)
DoaUnits(received_from_cda, doa_rate) ==
  Trunc(RMul(RInt(received_from_cda), doa_rate))

\* a slip that gives the two labels divergent logic: only "Next month" replaces
ReplacementsOnlyNextMonth(doa_replacement_mode, prev_doa) ==
  IF doa_replacement_mode = "Next month" THEN prev_doa ELSE 0

\* if doa_replacement_mode in {"Next month", "Next delivery"}: ... else 0
ReplacementsArrive(doa_replacement_mode, prev_doa) ==
  IF doa_replacement_mode \in {"Next month", "Next delivery"}
  THEN prev_doa
  ELSE 0

\* usable_now = received_from_cda - doa_units + replacements_arrive
UsableNow(received_from_cda, doa_units, replacements_arrive) ==
  received_from_cda - doa_units + replacements_arrive

\* comp_end_inv = comp_start_inv + usable_now - production
CompEndInv(comp_start_inv, usable_now, production) ==
  comp_start_inv + usable_now - production

\* available_for_sale = final_start_inv + production
AvailableForSale(final_start_inv, production) == final_start_inv + production

\* a slip that sells the demand whatever the stock is
SalesIgnoringStock(available_for_sale, demand) == demand

\* sales_units = min(available_for_sale, demand)
SalesUnits(available_for_sale, demand) ==
  IF demand < available_for_sale THEN demand ELSE available_for_sale

\* final_end_inv = available_for_sale - sales_units
FinalEndInv(available_for_sale, sales_units) == available_for_sale - sales_units

\* a slip that floors the carried inventory at 0 while the record keeps the
\* unclamped end value
CarryOverClamped(end_inv) == IF end_inv < 0 THEN 0 ELSE end_inv

\* comp_inv = comp_end_inv ; final_inv = final_end_inv
CarryOver(end_inv) == end_inv

\* field_failures = int(sales_units * field_failure_rate)
FieldFailures(sales_units, field_failure_rate) ==
  Trunc(RMul(RInt(sales_units), field_failure_rate))

\* total_volume_from_cda = received_from_cda + volume_from_cda_due_doa
TotalVolumeFromCda(received_from_cda, replacements_arrive) ==
  received_from_cda + replacements_arrive

\* a slip that counts the replacement units as purchases
PurchasedWithReplacements(received_from_cda, replacements_arrive) ==
  received_from_cda + replacements_arrive

\* total_oleds_purchased += received_from_cda
PurchasedIncrement(received_from_cda, replacements_arrive) == received_from_cda

\* the dictionary appended to records for one month
MonthRecord(inp, m, comp_start_inv, final_start_inv, prev_doa) ==
  LET received_from_cda   == inp.monthly_oled_delivery_plan[m]
      doa_units           == DoaUnits(received_from_cda, inp.doa_rate)
      replacements_arrive == ReplacementsArrive(inp.doa_replacement_mode, prev_doa)
      usable_now          == UsableNow(received_from_cda, doa_units, replacements_arrive)
      production          == inp.monthly_production_plan[m]
      comp_end_inv        == CompEndInv(comp_start_inv, usable_now, production)
      available_for_sale  == AvailableForSale(final_start_inv, production)
      demand              == inp.monthly_demand_units
      sales_units         == SalesUnits(available_for_sale, demand)
      final_end_inv       == FinalEndInv(available_for_sale, sales_units)
      field_failures      == FieldFailures(sales_units, inp.field_failure_rate)
      total_volume        == TotalVolumeFromCda(received_from_cda, replacements_arrive)
  IN  [ Month                         |-> m,
        OLEDs_bought_from_CDA         |-> received_from_cda,
        Field_failures                |-> field_failures,
        DOA_units                     |-> doa_units,
        DOA_replacements_received     |-> replacements_arrive,
        Component_inventory_start     |-> comp_start_inv,
        Component_inventory_end       |-> comp_end_inv,
        Final_product_inventory_start |-> final_start_inv,
        Final_product_inventory_end   |-> final_end_inv,
        Volume_from_CDA_due_DOA       |-> replacements_arrive,
        Total_volume_from_CDA         |-> total_volume,
        Transport_cost_from_CDA       |->
          RMul(RInt(total_volume), inp.transport_cost_per_unit_from_cda),
        Volume_to_CDA                 |-> field_failures,
        Transport_cost_to_CDA         |->
          RMul(RInt(field_failures), inp.transport_cost_per_unit_to_cda),
        Insurance_cost                |->
          RMul(RInt(total_volume + field_failures), inp.insurance_cost_per_unit),
        Demand                        |-> demand,
        Sales                         |-> sales_units,
        Sales_revenue                 |-> RMul(RInt(sales_units), inp.final_product_price),
        Production                    |-> production ]

\* inventory_comp_snapshots.append(comp_start_inv) inside the loop
LoopSnapshot(snapshots, start_inv, end_inv) == Append(snapshots, start_inv)

\* a slip that forgets the closing balance: 12 snapshots are averaged
NoClosingSnapshot(snapshots, inv) == snapshots

\* inventory_comp_snapshots.append(comp_inv) after the loop
ClosingSnapshot(snapshots, inv) == Append(snapshots, inv)

\* avg_comp_inv = sum(inventory_comp_snapshots) / len(inventory_comp_snapshots)
Average(snapshots) == RDivInt(RInt(SumSeq(snapshots)), Len(snapshots))

\* component_purchase_cost = total_oleds_purchased * final_price_component
ComponentPurchaseCost(purchased, price) == RMul(RInt(purchased), price)

\* ecolowrap_subsidy = 200_000 if ecolowrap else 0
EcolowrapSubsidy(ecolowrap) == IF ecolowrap THEN SubsidyAmount ELSE 0

\* a slip of sign: the subsidy is added to the costs
TotalCostsSubsidyAdded(inp, purchase, prod_cost, transport_from, transport_to, insurance, inventory_cost, subsidy) ==
  RAdd(RAdd(RAdd(RAdd(RAdd(RAdd(RAdd(purchase, prod_cost), transport_from),
                           transport_to), insurance), inventory_cost),
            inp.neginfo_cost),
       RInt(subsidy))

\* a variant that charges the service terms: a financing cost per day of
\* payment terms, a fee for customization and for each support week
TotalCostsWithServiceTerms(inp, purchase, prod_cost, transport_from, transport_to, insurance, inventory_cost, subsidy) ==
  RSub(RAdd(RAdd(RAdd(RAdd(RAdd(RAdd(RAdd(purchase, prod_cost), transport_from),
                                transport_to), insurance), inventory_cost),
                 inp.neginfo_cost),
            RInt(inp.payment_terms_days + inp.technical_support_weeks
                 + (IF inp.customization THEN 7 ELSE 0))),
       RInt(subsidy))

\* total_costs = component_purchase_cost + ... + neginfo_cost - ecolowrap_subsidy
TotalCosts(inp, purchase, prod_cost, transport_from, transport_to, insurance, inventory_cost, subsidy) ==
  RSub(RAdd(RAdd(RAdd(RAdd(RAdd(RAdd(purchase, prod_cost), transport_from),
                           transport_to), insurance), inventory_cost),
            inp.neginfo_cost),
       RInt(subsidy))

(***************************************************************************)
(* State: the form values of the two scenarios, the call in progress and   *)
(* its local variables, and what each call returned.                       *)
(***************************************************************************)
VARIABLES
  inputs,                        \* scenario -> keyword arguments of its call
  scenario,                      \* the call in progress or last made: "A", "B"
  pc,                            \* "idle", "loop", "returned", "raised"
  month,                         \* loop variable of for month in range(1, 13)
  result,                        \* scenario -> (df, kpis) returned, or NoResult
  final_price_component, records, comp_inv, final_inv, prev_month_doa,
  total_oleds_purchased, total_units_produced, total_units_sold,
  inventory_comp_snapshots, inventory_final_snapshots,
  total_transport_from_cda_cost, total_transport_to_cda_cost,
  total_insurance_cost, total_sales_revenue, total_prod_cost_excl_oled,
  avg_comp_inv, avg_final_inv, component_purchase_cost,
  inventory_comp_capital_cost, inventory_final_capital_cost,
  ecolowrap_subsidy, total_inventory_cost, total_costs, negotiation_profit

ctlVars  == <<inputs, scenario, pc, month, result>>
loopVars == <<final_price_component, records, comp_inv, final_inv, prev_month_doa,
              total_oleds_purchased, total_units_produced, total_units_sold,
              inventory_comp_snapshots, inventory_final_snapshots,
              total_transport_from_cda_cost, total_transport_to_cda_cost,
              total_insurance_cost, total_sales_revenue, total_prod_cost_excl_oled>>
finVars  == <<avg_comp_inv, avg_final_inv, component_purchase_cost,
              inventory_comp_capital_cost, inventory_final_capital_cost,
              ecolowrap_subsidy, total_inventory_cost, total_costs,
              negotiation_profit>>
vars == <<ctlVars, loopVars, finVars>>

Scenarios == {"A", "B"}
NoResult == [returned |-> FALSE]

\* the arguments of the call in progress
Args == inputs[scenario]

(***************************************************************************)
(* simulate_contract is entered: the assignments before the loop.          *)
(* Scenario A is called when the button is pressed, Scenario B after       *)
(* Scenario A has returned.                                                *)
(***************************************************************************)
Call(s) ==
  /\ \/ s = "A" /\ pc = "idle"
     \/ s = "B" /\ pc = "returned" /\ scenario = "A"
  /\ scenario' = s
  /\ pc' = "loop"
  /\ month' = 1
  /\ final_price_component' = FinalPriceComponent(inputs[s])
  /\ records' = <<>>
  /\ comp_inv' = inputs[s].initial_component_inventory
  /\ final_inv' = inputs[s].initial_final_inventory
  /\ prev_month_doa' = 0
  /\ total_oleds_purchased' = 0
  /\ total_units_produced' = 0
  /\ total_units_sold' = 0
  /\ inventory_comp_snapshots' = <<>>
  /\ inventory_final_snapshots' = <<>>
  /\ total_transport_from_cda_cost' = Zero
  /\ total_transport_to_cda_cost' = Zero
  /\ total_insurance_cost' = Zero
  /\ total_sales_revenue' = Zero
  /\ total_prod_cost_excl_oled' = Zero
  /\ UNCHANGED <<inputs, result, finVars>>

(***************************************************************************)
(* One iteration of the loop, for a month both plans have an entry for.    *)
(***************************************************************************)
Month ==
  /\ pc = "loop"
  /\ month <= NumMonths
  /\ month <= Len(Args.monthly_oled_delivery_plan)
  /\ month <= Len(Args.monthly_production_plan)
  /\ LET rec == MonthRecord(Args, month, comp_inv, final_inv, prev_month_doa)
     IN  /\ total_oleds_purchased' = total_oleds_purchased
              + PurchasedIncrement(rec.OLEDs_bought_from_CDA,
                                   rec.DOA_replacements_received)
         /\ prev_month_doa' = rec.DOA_units
         /\ total_units_produced' = total_units_produced + rec.Production
         /\ comp_inv' = CarryOver(rec.Component_inventory_end)
         /\ total_units_sold' = total_units_sold + rec.Sales
         /\ final_inv' = CarryOver(rec.Final_product_inventory_end)
         /\ total_transport_from_cda_cost' =
              RAdd(total_transport_from_cda_cost, rec.Transport_cost_from_CDA)
         /\ total_transport_to_cda_cost' =
              RAdd(total_transport_to_cda_cost, rec.Transport_cost_to_CDA)
         /\ total_insurance_cost' = RAdd(total_insurance_cost, rec.Insurance_cost)
         /\ total_sales_revenue' = RAdd(total_sales_revenue, rec.Sales_revenue)
         /\ total_prod_cost_excl_oled' =
              RAdd(total_prod_cost_excl_oled,
                   RMul(RInt(rec.Production), Args.prod_cost_per_unit_excl_oled))
         /\ inventory_comp_snapshots' =
              LoopSnapshot(inventory_comp_snapshots,
                           rec.Component_inventory_start, rec.Component_inventory_end)
         /\ inventory_final_snapshots' =
              LoopSnapshot(inventory_final_snapshots,
                           rec.Final_product_inventory_start,
                           rec.Final_product_inventory_end)
         /\ records' = Append(records, rec)
  /\ month' = month + 1
  /\ UNCHANGED <<inputs, scenario, pc, result, final_price_component, finVars>>

(***************************************************************************)
(* plan[month - 1] raises IndexError when a plan has fewer than `month`    *)
(* entries: at line 61 for the delivery plan, at line 76 for the           *)
(* production plan (lines 62-73 have run by then).  The exception leaves   *)
(* the script: nothing is returned and no later call is made.              *)
(***************************************************************************)
RaiseIndexError ==
  /\ pc = "loop"
  /\ month <= NumMonths
  /\ \/ /\ month > Len(Args.monthly_oled_delivery_plan)
        /\ UNCHANGED <<total_oleds_purchased, prev_month_doa>>
     \/ /\ month <= Len(Args.monthly_oled_delivery_plan)
        /\ month > Len(Args.monthly_production_plan)
        /\ LET received_from_cda == Args.monthly_oled_delivery_plan[month]
           IN  /\ total_oleds_purchased' = total_oleds_purchased
                    + PurchasedIncrement(received_from_cda,
                        ReplacementsArrive(Args.doa_replacement_mode, prev_month_doa))
               /\ prev_month_doa' = DoaUnits(received_from_cda, Args.doa_rate)
  /\ pc' = "raised"
  /\ UNCHANGED <<inputs, scenario, month, result, final_price_component, records,
                 comp_inv, final_inv, total_units_produced, total_units_sold,
                 inventory_comp_snapshots, inventory_final_snapshots,
                 total_transport_from_cda_cost, total_transport_to_cda_cost,
                 total_insurance_cost, total_sales_revenue,
                 total_prod_cost_excl_oled, finVars>>

(***************************************************************************)
(* After the loop: averages, costs, profit, the KPI dictionary, return.    *)
(***************************************************************************)
Kpis(inp, price, purchased, produced, sold, avg_comp, avg_final, purchase, prod_cost, transport_from, transport_to, insurance, inventory_cost, subsidy, revenue, profit) ==
  [ Component_final_price      |-> Round(price, 2),
    Total_OLEDs_purchased      |-> purchased,
    Total_units_produced       |-> produced,
    Total_units_sold           |-> sold,
    Average_component_inventory |-> Round(avg_comp, 1),
    Average_final_inventory    |-> Round(avg_final, 1),
    Component_purchase_cost    |-> Round(purchase, 0),
    Production_cost_excl_OLEDs |-> Round(prod_cost, 0),
    Transport_from_CDA         |-> Round(transport_from, 0),
    Transport_to_CDA           |-> Round(transport_to, 0),
    Insurance_cost             |-> Round(insurance, 0),
    Inventory_capital_cost     |-> Round(inventory_cost, 0),
    Ecolowrap_subsidy          |-> subsidy,
    NEGINFO_cost               |-> inp.neginfo_cost,
    Total_sales_revenue        |-> Round(revenue, 0),
    Profit_from_negotiation    |-> Round(profit, 0),
    Payment_terms              |-> inp.payment_terms_days,
    Customization_included     |-> inp.customization,
    Technical_support          |-> inp.technical_support_weeks,
    Ecolowrap                  |-> inp.ecolowrap ]

Return ==
  /\ pc = "loop"
  /\ month > NumMonths
  /\ LET comp_snaps  == ClosingSnapshot(inventory_comp_snapshots, comp_inv)
         final_snaps == ClosingSnapshot(inventory_final_snapshots, final_inv)
         avg_comp    == Average(comp_snaps)
         avg_final   == Average(final_snaps)
         purchase    == ComponentPurchaseCost(total_oleds_purchased,
                                              final_price_component)
         comp_cap    == RMul(RMul(avg_comp, final_price_component),
                             Args.cost_of_capital)
         final_cap   == RMul(RMul(avg_final, Args.prod_cost_per_unit_excl_oled),
                             Args.cost_of_capital)
         subsidy     == EcolowrapSubsidy(Args.ecolowrap)
         inv_cost    == RAdd(comp_cap, final_cap)
         costs       == TotalCosts(Args, purchase, total_prod_cost_excl_oled,
                                   total_transport_from_cda_cost,
                                   total_transport_to_cda_cost,
                                   total_insurance_cost, inv_cost, subsidy)
         profit      == RSub(total_sales_revenue, costs)
     IN  /\ inventory_comp_snapshots' = comp_snaps
         /\ inventory_final_snapshots' = final_snaps
         /\ avg_comp_inv' = avg_comp
         /\ avg_final_inv' = avg_final
         /\ component_purchase_cost' = purchase
         /\ inventory_comp_capital_cost' = comp_cap
         /\ inventory_final_capital_cost' = final_cap
         /\ ecolowrap_subsidy' = subsidy
         /\ total_inventory_cost' = inv_cost
         /\ total_costs' = costs
         /\ negotiation_profit' = profit
         /\ result' = [result EXCEPT ![scenario] =
              [ returned |-> TRUE,
                df       |-> records,
                kpis     |-> Kpis(Args, final_price_component,
                                  total_oleds_purchased, total_units_produced,
                                  total_units_sold, avg_comp, avg_final, purchase,
                                  total_prod_cost_excl_oled,
                                  total_transport_from_cda_cost,
                                  total_transport_to_cda_cost,
                                  total_insurance_cost, inv_cost, subsidy,
                                  total_sales_revenue, profit) ]]
  /\ pc' = "returned"
  /\ UNCHANGED <<inputs, scenario, month, final_price_component, records,
                 comp_inv, final_inv, prev_month_doa, total_oleds_purchased,
                 total_units_produced, total_units_sold,
                 total_transport_from_cda_cost, total_transport_to_cda_cost,
                 total_insurance_cost, total_sales_revenue,
                 total_prod_cost_excl_oled>>

(***************************************************************************)
(* The form values the two calls are made with.  The defaults are the      *)
(* form's defaults scaled down (6000 units -> 2, 178 EUR -> 4, ...).       *)
(***************************************************************************)
Half == Rat(1, 2)

\* [a] + [b] * (len - 1), the shape of default_prod_plan and default_supply_plan
Plan(a, b, len) == [i \in 1..len |-> IF i = 1 THEN a ELSE b]

Units == 0..MaxUnits

Plans == {Plan(a, b, NumMonths) : a \in Units, b \in Units}

DefaultInputs ==
  [ list_price                       |-> 4,
    discount                         |-> 0,
    monthly_oled_delivery_plan       |-> Plan(2, 2, NumMonths),
    initial_component_inventory      |-> 1,
    monthly_production_plan          |-> Plan(2, 1, NumMonths),
    payment_terms_days               |-> 60,
    doa_rate                         |-> Half,
    doa_replacement_mode             |-> "Next month",
    customization                    |-> TRUE,
    technical_support_weeks          |-> 3,
    ecolowrap                        |-> TRUE,
    cost_of_capital                  |-> Half,
    transport_cost_per_unit_from_cda |-> RInt(1),
    transport_cost_per_unit_to_cda   |-> Zero,
    insurance_cost_per_unit          |-> RInt(1),
    field_failure_rate               |-> Half,
    final_product_price              |-> RInt(9),
    monthly_demand_units             |-> 2,
    prod_cost_per_unit_excl_oled     |-> RInt(3),
    initial_final_inventory          |-> 1,
    neginfo_cost                     |-> Zero ]

\* valid inputs that vary the physical flows
FlowInputs ==
  { [DefaultInputs EXCEPT !.monthly_oled_delivery_plan = dp,
                          !.monthly_production_plan = pp,
                          !.initial_component_inventory = ci,
                          !.initial_final_inventory = fi,
                          !.doa_rate = dr,
                          !.monthly_demand_units = dem] :
      dp \in Plans, pp \in Plans, ci \in {0, MaxUnits}, fi \in {0, 1},
      dr \in {Zero, Half}, dem \in {0, 1, MaxUnits} }

\* valid inputs that vary the prices, rates and flat adjustments
EconInputs ==
  { [DefaultInputs EXCEPT !.list_price = lp,
                          !.discount = disc,
                          !.cost_of_capital = coc,
                          !.field_failure_rate = ffr,
                          !.transport_cost_per_unit_to_cda = RInt(tto),
                          !.neginfo_cost = RInt(neg),
                          !.ecolowrap = eco] :
      lp \in {0, 4}, disc \in {0, 50}, coc \in {Zero, Half}, ffr \in {Zero, Half},
      tto \in {0, 1}, neg \in {0, 3}, eco \in BOOLEAN }

\* inputs the form accepts although the quantity is negative or the rate is
\* outside [0, 1] (number_input sets no min_value)
NegativeInputs ==
  { [DefaultInputs EXCEPT !.list_price = -1],
    [DefaultInputs EXCEPT !.monthly_oled_delivery_plan = Plan(-1, 2, NumMonths)],
    [DefaultInputs EXCEPT !.monthly_oled_delivery_plan = Plan(2, -1, NumMonths)],
    [DefaultInputs EXCEPT !.monthly_production_plan = Plan(-1, 1, NumMonths)],
    [DefaultInputs EXCEPT !.initial_component_inventory = -1],
    [DefaultInputs EXCEPT !.initial_final_inventory = -1],
    [DefaultInputs EXCEPT !.initial_final_inventory = -3,
                          !.monthly_demand_units = 0],
    [DefaultInputs EXCEPT !.monthly_demand_units = -1],
    [DefaultInputs EXCEPT !.transport_cost_per_unit_from_cda = RInt(-1)],
    [DefaultInputs EXCEPT !.transport_cost_per_unit_to_cda = RInt(-1)],
    [DefaultInputs EXCEPT !.insurance_cost_per_unit = RInt(-1)],
    [DefaultInputs EXCEPT !.final_product_price = RInt(-1)],
    [DefaultInputs EXCEPT !.prod_cost_per_unit_excl_oled = RInt(-1)],
    [DefaultInputs EXCEPT !.neginfo_cost = RInt(-1)],
    [DefaultInputs EXCEPT !.cost_of_capital = Rat(-1, 2)],
    [DefaultInputs EXCEPT !.doa_rate = Rat(-1, 2)],
    [DefaultInputs EXCEPT !.doa_rate = Rat(3, 2)],
    [DefaultInputs EXCEPT !.field_failure_rate = Rat(-1, 2)],
    [DefaultInputs EXCEPT !.field_failure_rate = Rat(3, 2)] }

\* plans that do not have NumMonths entries
WrongLengthInputs ==
  { [DefaultInputs EXCEPT !.monthly_oled_delivery_plan = Plan(2, 2, dl),
                          !.monthly_production_plan = Plan(2, 1, pl)] :
      dl \in {0, NumMonths - 1, NumMonths, NumMonths + 1},
      pl \in {0, NumMonths - 1, NumMonths, NumMonths + 1} }
  \ {DefaultInputs}

Modes == {"Next month", "Next delivery", "Never"}

\* (payment_terms_days, customization, technical_support_weeks)
ServiceTerms ==
  {<<60, TRUE, 3>>, <<30, TRUE, 3>>, <<60, FALSE, 3>>, <<60, TRUE, 5>>, <<30, FALSE, 5>>}

\* the inputs that differ from a at most in the service terms, the packaging
\* flag and the replacement-mode label
Variants(a) ==
  { [a EXCEPT !.payment_terms_days = st[1],
              !.customization = st[2],
              !.technical_support_weeks = st[3],
              !.ecolowrap = eco,
              !.doa_replacement_mode = mode] :
      st \in ServiceTerms, eco \in BOOLEAN, mode \in Modes }

ComparedInputs ==
  { [DefaultInputs EXCEPT !.monthly_oled_delivery_plan = Plan(a, 2, NumMonths),
                          !.monthly_demand_units = dem,
                          !.ecolowrap = eco] :
      a \in Units, dem \in {0, 2}, eco \in BOOLEAN }

Pair(a, b) == [s \in Scenarios |-> IF s = "A" THEN a ELSE b]

InputPairs ==
  { Pair(a, [a EXCEPT !.doa_replacement_mode = "Next delivery"]) :
      a \in FlowInputs \cup EconInputs \cup NegativeInputs \cup WrongLengthInputs }
  \cup
  { Pair(ab[1], ab[2]) :
      ab \in UNION { {<<a, b>> : b \in Variants(a)} : a \in ComparedInputs } }

Init ==
  /\ inputs \in InputPairs
  /\ scenario = "A"
  /\ pc = "idle"
  /\ month = 0
  /\ result = [s \in Scenarios |-> NoResult]
  /\ final_price_component = Zero
  /\ records = <<>>
  /\ comp_inv = 0
  /\ final_inv = 0
  /\ prev_month_doa = 0
  /\ total_oleds_purchased = 0
  /\ total_units_produced = 0
  /\ total_units_sold = 0
  /\ inventory_comp_snapshots = <<>>
  /\ inventory_final_snapshots = <<>>
  /\ total_transport_from_cda_cost = Zero
  /\ total_transport_to_cda_cost = Zero
  /\ total_insurance_cost = Zero
  /\ total_sales_revenue = Zero
  /\ total_prod_cost_excl_oled = Zero
  /\ avg_comp_inv = Zero
  /\ avg_final_inv = Zero
  /\ component_purchase_cost = Zero
  /\ inventory_comp_capital_cost = Zero
  /\ inventory_final_capital_cost = Zero
  /\ ecolowrap_subsidy = 0
  /\ total_inventory_cost = Zero
  /\ total_costs = Zero
  /\ negotiation_profit = Zero

Next ==
  \/ Call("A")
  \/ Call("B")
  \/ Month
  \/ RaiseIndexError
  \/ Return

Spec == Init /\ [][Next]_vars

(***************************************************************************)
(* What the specification calls valid inputs (its sections 3 and 7).       *)
(***************************************************************************)
NonNegative(r) == r.n >= 0
InUnitInterval(r) == r.n >= 0 /\ r.n <= r.d

NoNegativeQuantity(inp) ==
  /\ inp.list_price >= 0
  /\ \A i \in DOMAIN inp.monthly_oled_delivery_plan :
       inp.monthly_oled_delivery_plan[i] >= 0
  /\ \A i \in DOMAIN inp.monthly_production_plan :
       inp.monthly_production_plan[i] >= 0
  /\ inp.initial_component_inventory >= 0
  /\ inp.initial_final_inventory >= 0
  /\ inp.monthly_demand_units >= 0
  /\ NonNegative(inp.transport_cost_per_unit_from_cda)
  /\ NonNegative(inp.transport_cost_per_unit_to_cda)
  /\ NonNegative(inp.insurance_cost_per_unit)
  /\ NonNegative(inp.final_product_price)
  /\ NonNegative(inp.prod_cost_per_unit_excl_oled)
  /\ NonNegative(inp.neginfo_cost)

RatesInRange(inp) ==
  /\ InUnitInterval(inp.doa_rate)
  /\ InUnitInterval(inp.field_failure_rate)

PlanLengthsRight(inp) ==
  /\ Len(inp.monthly_oled_delivery_plan) = NumMonths
  /\ Len(inp.monthly_production_plan) = NumMonths

ValidInputs(inp) ==
  /\ NoNegativeQuantity(inp)
  /\ RatesInRange(inp)
  /\ NonNegative(inp.cost_of_capital)
  /\ PlanLengthsRight(inp)

ReplacementLabels == {"Next month", "Next delivery"}

\* the call of scenario s has been entered (its locals are the ones in the state)
InCall == pc \in {"loop", "returned", "raised"}

(***************************************************************************)
(* C1.  For non-negative plans and initial inventories, every recorded     *)
(* 'Component inventory end' and 'Final product inventory end' is >= 0,    *)
(* and when planned production exceeds component inventory start plus      *)
(* usable components the recorded component inventory end is 0.            *)
(* The code does not clamp: line 79 records the negative difference.       *)
(***************************************************************************)
C1_InventoryEndsNonNegative ==
  (InCall /\ ValidInputs(Args)) =>
    \A i \in 1..Len(records) :
      /\ records[i].Component_inventory_end >= 0
      /\ records[i].Final_product_inventory_end >= 0
      /\ LET usable == records[i].OLEDs_bought_from_CDA - records[i].DOA_units
                       + records[i].DOA_replacements_received
         IN  records[i].Production > records[i].Component_inventory_start + usable
               => records[i].Component_inventory_end = 0

(***************************************************************************)
(* C2.  Under either replacement mode label, the 'DOA replacements         *)
(* received' of period n >= 2 equals the 'DOA units' of period n-1, and    *)
(* period 1 receives 0; DOA units = floor(delivered x doaRate) (int()      *)
(* truncates toward zero, which is the floor when delivered and the rate   *)
(* are not negative); and two runs whose inputs differ only in the mode    *)
(* label return identical period records.                                  *)
(***************************************************************************)
C2_DoaLagOnePeriod ==
  /\ (InCall /\ Args.doa_replacement_mode \in ReplacementLabels) =>
       \A i \in 1..Len(records) :
         /\ records[i].DOA_replacements_received =
              (IF i = 1 THEN 0 ELSE records[i - 1].DOA_units)
         /\ (records[i].OLEDs_bought_from_CDA >= 0 /\ NonNegative(Args.doa_rate)) =>
              records[i].DOA_units =
                Floor(RMul(RInt(records[i].OLEDs_bought_from_CDA), Args.doa_rate))
  /\ ( /\ result["A"].returned
       /\ result["B"].returned
       /\ inputs["A"].doa_replacement_mode \in ReplacementLabels
       /\ inputs["B"].doa_replacement_mode \in ReplacementLabels
       /\ inputs["B"] = [inputs["A"] EXCEPT !.doa_replacement_mode =
                                              inputs["B"].doa_replacement_mode] )
     => result["A"].df = result["B"].df

\* Scenario B ran under "Next delivery", Scenario A under "Next month", with
\* nothing else different, and replacements did arrive
C2_Witness ==
  /\ result["A"].returned
  /\ result["B"].returned
  /\ inputs["A"].doa_replacement_mode = "Next month"
  /\ inputs["B"] = [inputs["A"] EXCEPT !.doa_replacement_mode = "Next delivery"]
  /\ \E i \in 2..Len(result["B"].df) :
       /\ result["B"].df[i].DOA_replacements_received > 0
       /\ result["B"].df[i].DOA_units # result["B"].df[i].DOA_replacements_received

(***************************************************************************)
(* C3.  In every period record, sales = min(finished inventory start +     *)
(* production, demand), sales never exceed what is available for sale,     *)
(* and finished inventory end = available for sale - sales.                *)
(***************************************************************************)
C3_SalesCappedByStockAndDemand ==
  InCall =>
    \A i \in 1..Len(records) :
      LET r         == records[i]
          available == r.Final_product_inventory_start + r.Production
      IN  /\ r.Sales <= available
          /\ r.Sales <= r.Demand
          /\ r.Sales = available \/ r.Sales = r.Demand
          /\ r.Final_product_inventory_end = available - r.Sales

\* a demand-constrained month (stock left over) and a stock-constrained month
C3_Witness ==
  /\ pc = "returned"
  /\ \E i \in 1..Len(records) :
       /\ records[i].Demand < records[i].Final_product_inventory_start
                                + records[i].Production
       /\ records[i].Final_product_inventory_end > 0
  /\ \E i \in 1..Len(records) :
       /\ records[i].Demand > records[i].Final_product_inventory_start
                                + records[i].Production
       /\ records[i].Sales > 0

(***************************************************************************)
(* C4.  When the delivery plan or the production plan does not have        *)
(* exactly 12 entries, the run is rejected and no result is returned.      *)
(* The code never checks the lengths: a plan with more than 12 entries is  *)
(* simulated on its first 12, and a shorter one fails inside the loop.     *)
(***************************************************************************)
C4_WrongLengthNeverReturns ==
  \A s \in Scenarios : ~PlanLengthsRight(inputs[s]) => ~result[s].returned

(***************************************************************************)
(* C5.  When a price, cost, inventory or volume input is negative, or      *)
(* doaRate or fieldFailureRate lies outside [0,1], the run fails and no    *)
(* result computed from those inputs is returned.                          *)
(* The code validates nothing.                                             *)
(***************************************************************************)
C5_InvalidInputsNeverReturn ==
  \A s \in Scenarios :
    (~NoNegativeQuantity(inputs[s]) \/ ~RatesInRange(inputs[s]))
      => ~result[s].returned

(***************************************************************************)
(* Sums over the period records, for the claims about totals.              *)
(***************************************************************************)
Delivered(df) == SumSeq([i \in 1..Len(df) |-> df[i].OLEDs_bought_from_CDA])
Sold(df) == SumSeq([i \in 1..Len(df) |-> df[i].Sales])

\* the net component price as the specification defines it
NetComponentPrice(inp) == Rat(inp.list_price * (100 - inp.discount), 100)

(***************************************************************************)
(* C6.  total cost = component purchase cost + production cost excl.       *)
(* component + inbound transport + outbound transport + insurance +        *)
(* component capital cost + finished capital cost + NEGINFO - grant, where *)
(* the purchase cost is the total delivered (DOA units included) times the *)
(* net component price and the grant is the fixed amount iff eco-packaging *)
(* is selected; profit = total sales revenue - total cost.  (This engine   *)
(* has no fixed annual cost input: that term is absent, i.e. 0.)           *)
(***************************************************************************)
C6_TotalCostAndProfit ==
  pc = "returned" =>
    /\ component_purchase_cost =
         RMul(RInt(Delivered(records)), NetComponentPrice(Args))
    /\ ecolowrap_subsidy = (IF Args.ecolowrap THEN SubsidyAmount ELSE 0)
    /\ total_costs =
         RSub(RAdd(component_purchase_cost,
              RAdd(total_prod_cost_excl_oled,
              RAdd(total_transport_from_cda_cost,
              RAdd(total_transport_to_cda_cost,
              RAdd(total_insurance_cost,
              RAdd(inventory_comp_capital_cost,
              RAdd(inventory_final_capital_cost, Args.neginfo_cost))))))),
              RInt(ecolowrap_subsidy))
    /\ negotiation_profit = RSub(total_sales_revenue, total_costs)

\* a returned run with the grant, a NEGINFO cost, a discount, DOA units that
\* were paid for, outbound transport and both capital costs
C6_Witness ==
  /\ pc = "returned"
  /\ Args.ecolowrap
  /\ Args.neginfo_cost # Zero
  /\ Args.discount > 0
  /\ \E i \in 1..Len(records) : records[i].DOA_units > 0
  /\ component_purchase_cost # Zero
  /\ total_transport_to_cda_cost # Zero
  /\ inventory_comp_capital_cost # Zero
  /\ inventory_final_capital_cost # Zero

(***************************************************************************)
(* C7.  Each reported average inventory is the mean of exactly 13          *)
(* snapshots, the 12 period-start inventories followed by the inventory at *)
(* the end of period 12; so when an inventory is the same c at every       *)
(* period start and at year end, the reported average is c.                *)
(***************************************************************************)
AllEqual(snapshots, c) == \A i \in 1..Len(snapshots) : snapshots[i] = c

C7_AverageOfThirteenSnapshots ==
  pc = "returned" =>
    /\ Len(records) = NumMonths
    /\ Len(inventory_comp_snapshots) = NumMonths + 1
    /\ Len(inventory_final_snapshots) = NumMonths + 1
    /\ \A i \in 1..NumMonths :
         /\ inventory_comp_snapshots[i] = records[i].Component_inventory_start
         /\ inventory_final_snapshots[i] = records[i].Final_product_inventory_start
    /\ inventory_comp_snapshots[NumMonths + 1] =
         records[NumMonths].Component_inventory_end
    /\ inventory_final_snapshots[NumMonths + 1] =
         records[NumMonths].Final_product_inventory_end
    /\ RMul(avg_comp_inv, RInt(NumMonths + 1)) =
         RInt(SumSeq([i \in 1..NumMonths |-> records[i].Component_inventory_start])
              + records[NumMonths].Component_inventory_end)
    /\ RMul(avg_final_inv, RInt(NumMonths + 1)) =
         RInt(SumSeq([i \in 1..NumMonths |-> records[i].Final_product_inventory_start])
              + records[NumMonths].Final_product_inventory_end)
    /\ \A c \in -MaxUnits..MaxUnits :
         /\ ( /\ \A i \in 1..NumMonths : records[i].Component_inventory_start = c
              /\ records[NumMonths].Component_inventory_end = c )
            => /\ avg_comp_inv = RInt(c)
               /\ result[scenario].kpis.Average_component_inventory = RInt(c)
         /\ ( /\ \A i \in 1..NumMonths : records[i].Final_product_inventory_start = c
              /\ records[NumMonths].Final_product_inventory_end = c )
            => /\ avg_final_inv = RInt(c)
               /\ result[scenario].kpis.Average_final_inventory = RInt(c)

\* a returned run whose component inventory stayed at c > 0 and whose finished
\* inventory stayed at c2 > 0 all year
C7_Witness ==
  /\ pc = "returned"
  /\ \E c \in 1..MaxUnits :
       /\ Len(inventory_comp_snapshots) = NumMonths + 1
       /\ AllEqual(inventory_comp_snapshots, c)
       /\ avg_comp_inv = RInt(c)
  /\ \E c2 \in 1..MaxUnits :
       /\ AllEqual(inventory_final_snapshots, c2)
       /\ avg_final_inv = RInt(c2)
  /\ \E i \in 1..Len(records) : records[i].Production > 0

(***************************************************************************)
(* C8.  If demand is 0 in all 12 periods, the result has totalUnitsSold =  *)
(* 0 and a marginPerUnit KPI equal to 0; in general marginPerUnit = profit *)
(* / totalUnitsSold when totalUnitsSold > 0 and 0 otherwise.               *)
(* The KPI dictionary (lines 175-196) has no margin-per-unit entry.        *)
(***************************************************************************)
C8_MarginPerUnitKpi ==
  \A s \in Scenarios :
    (result[s].returned /\ ValidInputs(inputs[s])) =>
      LET kpis == result[s].kpis
      IN  /\ inputs[s].monthly_demand_units = 0 => kpis.Total_units_sold = 0
          /\ "Margin_per_unit" \in DOMAIN kpis
          /\ IF kpis.Total_units_sold > 0
             THEN RMul(kpis.Margin_per_unit, RInt(kpis.Total_units_sold))
                    = kpis.Profit_from_negotiation
             ELSE kpis.Margin_per_unit = Zero

(***************************************************************************)
(* C9.  After each period k the running totals of units sold and of OLEDs  *)
(* purchased equal the sums of the sales and of the deliveries of the      *)
(* first k period records, and the KPIs 'Total units sold' and 'Total      *)
(* OLEDs purchased' equal the sums over the 12 records; replacement units  *)
(* are not counted as purchases.                                           *)
(***************************************************************************)
C9_TotalsAreSumsOfRecords ==
  /\ pc \in {"loop", "returned"} =>
       /\ Len(records) = month - 1
       /\ total_units_sold = Sold(records)
       /\ total_oleds_purchased = Delivered(records)
  /\ \A s \in Scenarios :
       result[s].returned =>
         /\ Len(result[s].df) = NumMonths
         /\ result[s].kpis.Total_units_sold = Sold(result[s].df)
         /\ result[s].kpis.Total_OLEDs_purchased = Delivered(result[s].df)

\* a returned run in which units were sold, bought, and replacements arrived
C9_Witness ==
  /\ pc = "returned"
  /\ result[scenario].kpis.Total_units_sold > 0
  /\ result[scenario].kpis.Total_OLEDs_purchased > 0
  /\ \E i \in 1..Len(records) : records[i].DOA_replacements_received > 0

(***************************************************************************)
(* C10.  payment_terms_days, customization and technical_support_weeks are *)
(* pass-through: two runs whose inputs differ only in those three values   *)
(* return identical period records, identical cost and revenue totals and  *)
(* identical profit; when the eco-packaging flag differs as well, the      *)
(* profits differ by exactly the grant and nothing else changes.           *)
(***************************************************************************)
SameButServiceTermsAndPackaging(a, b) ==
  b = [a EXCEPT !.payment_terms_days = b.payment_terms_days,
                !.customization = b.customization,
                !.technical_support_weeks = b.technical_support_weeks,
                !.ecolowrap = b.ecolowrap]

C10_ServiceTermsArePassThrough ==
  ( /\ result["A"].returned
    /\ result["B"].returned
    /\ SameButServiceTermsAndPackaging(inputs["A"], inputs["B"]) )
  => LET ka == result["A"].kpis
         kb == result["B"].kpis
     IN  /\ result["A"].df = result["B"].df
         /\ ka.Component_purchase_cost = kb.Component_purchase_cost
         /\ ka.Production_cost_excl_OLEDs = kb.Production_cost_excl_OLEDs
         /\ ka.Transport_from_CDA = kb.Transport_from_CDA
         /\ ka.Transport_to_CDA = kb.Transport_to_CDA
         /\ ka.Insurance_cost = kb.Insurance_cost
         /\ ka.Inventory_capital_cost = kb.Inventory_capital_cost
         /\ ka.NEGINFO_cost = kb.NEGINFO_cost
         /\ ka.Total_sales_revenue = kb.Total_sales_revenue
         /\ RSub(ka.Profit_from_negotiation, RInt(ka.Ecolowrap_subsidy)) =
              RSub(kb.Profit_from_negotiation, RInt(kb.Ecolowrap_subsidy))
         /\ inputs["A"].ecolowrap = inputs["B"].ecolowrap =>
              ka.Profit_from_negotiation = kb.Profit_from_negotiation
         /\ inputs["A"].ecolowrap # inputs["B"].ecolowrap =>
              ka.Profit_from_negotiation # kb.Profit_from_negotiation

\* both scenarios returned, with all three service terms different, the same
\* packaging flag, units sold and a profit that is not 0
C10_Witness ==
  /\ result["A"].returned
  /\ result["B"].returned
  /\ SameButServiceTermsAndPackaging(inputs["A"], inputs["B"])
  /\ inputs["A"].payment_terms_days # inputs["B"].payment_terms_days
  /\ inputs["A"].customization # inputs["B"].customization
  /\ inputs["A"].technical_support_weeks # inputs["B"].technical_support_weeks
  /\ inputs["A"].ecolowrap = inputs["B"].ecolowrap
  /\ result["B"].kpis.Total_units_sold > 0
  /\ result["B"].kpis.Profit_from_negotiation # Zero

(***************************************************************************)
(* C11.  State is threaded strictly forward: period 1's component and      *)
(* finished inventory starts are the initial inventories supplied, and for *)
(* every n in 1..11 the recorded 'Component inventory start' of period n+1 *)
(* is the recorded 'Component inventory end' of period n, and likewise for *)
(* the final product inventory.                                            *)
(***************************************************************************)
ThreadedForward(df, inp) ==
  \A i \in 1..Len(df) :
    /\ df[i].Month = i
    /\ df[i].Component_inventory_start =
         (IF i = 1 THEN inp.initial_component_inventory
                   ELSE df[i - 1].Component_inventory_end)
    /\ df[i].Final_product_inventory_start =
         (IF i = 1 THEN inp.initial_final_inventory
                   ELSE df[i - 1].Final_product_inventory_end)

C11_StateThreadedForward ==
  /\ InCall => /\ ThreadedForward(records, Args)
               /\ pc = "loop" /\ records # <<>> =>
                    /\ comp_inv = records[Len(records)].Component_inventory_end
                    /\ final_inv = records[Len(records)].Final_product_inventory_end
  /\ \A s \in Scenarios :
       result[s].returned =>
         /\ Len(result[s].df) = NumMonths
         /\ ThreadedForward(result[s].df, inputs[s])

\* a returned run that started from stocks above 0, in which both inventories
\* moved, and in which a component inventory end below 0 was carried into the
\* next period
C11_Witness ==
  /\ pc = "returned"
  /\ Args.initial_component_inventory > 0
  /\ Args.initial_final_inventory > 0
  /\ records[1].Component_inventory_start = Args.initial_component_inventory
  /\ \E n \in 1..(NumMonths - 1) :
       /\ records[n].Component_inventory_end < 0
       /\ records[n + 1].Component_inventory_start = records[n].Component_inventory_end
  /\ \E n \in 1..(NumMonths - 1) :
       /\ records[n].Final_product_inventory_end
            # records[n].Final_product_inventory_start
       /\ records[n + 1].Final_product_inventory_start
            = records[n].Final_product_inventory_end

====
